---- MODULE Spec2Model ----
(***************************************************************************)
(* The listen command of the Stripe CLI (package cmd): normalisation of    *)
(* the operator's forwarding targets (parseURL), composition of the        *)
(* per-endpoint delivery URL (buildForwardURL), resolution of the account's *)
(* webhook endpoints into routes (buildEndpointRoutes) and the command     *)
(* body that validates the flags and starts the proxy (runListenCmd).      *)
(*                                                                         *)
(* Go strings are modelled as TLA+ strings of ASCII characters.  The       *)
(* standard-library calls the code makes (strconv.Atoi, strings.HasPrefix, *)
(* strings.TrimSuffix, url.Parse) are modelled by what they compute on     *)
(* strings without '@', '[', control bytes and bytes above 0x7E; no input  *)
(* of the model holds one of those, nor a '%' outside a path or fragment,  *)
(* nor an escape of such a byte or of a backquote.  int is 64 bits wide.   *)
(* The flags that runListenCmd only copies into the proxy.Config or uses   *)
(* for the version check (--latest, --live, --print-json, --skip-verify,   *)
(* --skip-update, --api-base, --no-wss) are left out.                      *)
(***************************************************************************)
EXTENDS Integers, Sequences, FiniteSets, TLC

VARIABLES
  pc,             \* position of runListenCmd
  lc,             \* the listenCmd flags of this run
  endpoints,      \* the listing getEndpointsFromAPI returned, once it was fetched
  endpointRoutes, \* the local endpointRoutes of runListenCmd
  warnings,       \* event names printed in "Warning: ..." lines, in order
  stdout,         \* what --print-secret printed
  err,            \* the error runListenCmd returned ("" is nil)
  relay,          \* the proxy.Config handed to proxy.Init, and how often Run was called
  url,            \* Normalizer harness: the argument of parseURL
  normalized,     \* Normalizer harness: results of parseURL applied once and twice
  forwardTo,      \* Composer harness: the base handed to buildForwardURL
  endpointURL,    \* Composer harness: the *url.URL of the destination
  composed        \* Composer harness: results of buildForwardURL for the base and for base + "/"

vars == <<pc, lc, endpoints, endpointRoutes, warnings, stdout, err, relay, url, normalized,
          forwardTo, endpointURL, composed>>

cmdVars == <<pc, lc, endpoints, endpointRoutes, warnings, stdout, err, relay>>

composeVars == <<forwardTo, endpointURL, composed>>

----------------------------------------------------------------------------
(* Bounds of the model *)

\* longest string over Alphabet given to parseURL by the Normalizer harness
MaxLen == 3
\* most entries in the endpoint listing returned by the API
MaxEndpoints == 3

----------------------------------------------------------------------------
(* strings *)

Digits == {"0", "1", "2", "3", "4", "5", "6", "7", "8", "9"}

LowerLetters == "abcdefghijklmnopqrstuvwxyz"

UpperLetters == "ABCDEFGHIJKLMNOPQRSTUVWXYZ"

CharAt(s, i) == SubSeq(s, i, i)

Chars(s) == {CharAt(s, i) : i \in 1..Len(s)}

Letters == Chars(LowerLetters) \cup Chars(UpperLetters)

IsLetter(c) == c \in Letters

\* strings.HasPrefix
HasPrefix(s, prefix) ==
  Len(s) >= Len(prefix) /\ SubSeq(s, 1, Len(prefix)) = prefix

\* strings.HasSuffix
HasSuffix(s, suffix) ==
  Len(s) >= Len(suffix) /\ SubSeq(s, Len(s) - Len(suffix) + 1, Len(s)) = suffix

\* strings.TrimSuffix
TrimSuffix(s, suffix) ==
  IF HasSuffix(s, suffix) THEN SubSeq(s, 1, Len(s) - Len(suffix)) ELSE s

\* strings.Index for a one-byte separator: 0 when absent (Go's -1)
RECURSIVE IndexFrom(_, _, _)
IndexFrom(s, c, i) ==
  IF i > Len(s) THEN 0
  ELSE IF CharAt(s, i) = c THEN i
  ELSE IndexFrom(s, c, i + 1)

Index(s, c) == IndexFrom(s, c, 1)

\* strings.LastIndex for a one-byte separator: 0 when absent
RECURSIVE LastIndexFrom(_, _, _)
LastIndexFrom(s, c, i) ==
  IF i = 0 THEN 0
  ELSE IF CharAt(s, i) = c THEN i
  ELSE LastIndexFrom(s, c, i - 1)

LastIndex(s, c) == LastIndexFrom(s, c, Len(s))

\* strings.Count for a one-byte separator
Count(s, c) == Cardinality({i \in 1..Len(s) : CharAt(s, i) = c})

\* strings.Cut: <<before, after>>; <<s, "">> when the separator is absent
Cut(s, c) ==
  LET i == Index(s, c)
  IN  IF i = 0 THEN <<s, "">> ELSE <<SubSeq(s, 1, i - 1), SubSeq(s, i + 1, Len(s))>>

\* strings.ToLower on ASCII
LowerChar(c) ==
  IF Index(UpperLetters, c) # 0 THEN CharAt(LowerLetters, Index(UpperLetters, c)) ELSE c

RECURSIVE ToLower(_)
ToLower(s) == IF s = "" THEN "" ELSE LowerChar(Head(s)) \o ToLower(Tail(s))

----------------------------------------------------------------------------
(* strconv.Atoi *)

DigitValue(c) == CHOOSE n \in 0..9 : CharAt("0123456789", n + 1) = c

RECURSIVE TrimLeadingZeros(_)
TrimLeadingZeros(s) ==
  IF Len(s) > 1 /\ Head(s) = "0" THEN TrimLeadingZeros(Tail(s)) ELSE s

\* a <= b for digit strings of the same length
RECURSIVE DigitsLeq(_, _)
DigitsLeq(a, b) ==
  IF a = "" THEN TRUE
  ELSE IF Head(a) # Head(b) THEN DigitValue(Head(a)) < DigitValue(Head(b))
  ELSE DigitsLeq(Tail(a), Tail(b))

\* d <= limit for digit strings without leading zeros
AtMost(d, limit) ==
  Len(d) < Len(limit) \/ (Len(d) = Len(limit) /\ DigitsLeq(d, limit))

\* the magnitude fits an int: at most 2^63 - 1, or 2^63 after a minus sign
FitsInt(digits, negative) ==
  AtMost(TrimLeadingZeros(digits),
         IF negative THEN "9223372036854775808" ELSE "9223372036854775807")

\* one or more decimal digits, whose value is in the range of int
DigitsOK(digits, negative) ==
  /\ digits # ""
  /\ Chars(digits) \subseteq Digits
  /\ FitsInt(digits, negative)

\* err == nil of strconv.Atoi(s): an optional sign, then the digits
AtoiOK(s) ==
  IF s # "" /\ Head(s) \in {"+", "-"}
  THEN DigitsOK(Tail(s), Head(s) = "-")
  ELSE DigitsOK(s, FALSE)

----------------------------------------------------------------------------
(* parseURL *)

\* lines 232-236: a number is a port of localhost
addPort(u) == IF AtoiOK(u) THEN "localhost:" \o u ELSE u

\* lines 238-241: a leading "/" is a path on localhost
addHost(u) == IF HasPrefix(u, "/") THEN "localhost" \o u ELSE u

\* lines 243-246: the protocol is added if it is not there
addProtocol(u) ==
  IF ~HasPrefix(u, "http://") /\ ~HasPrefix(u, "https://") THEN "http://" \o u ELSE u

\* the test of line 243 looking for "http://" only
addProtocolHttpOnly(u) ==
  IF ~HasPrefix(u, "http://") THEN "http://" \o u ELSE u

\* the port rule of lines 232-236 left out
parseURLWithoutPortRule(u) == addProtocol(addHost(u))

\* the test of line 243 looking for "http://" only
parseURLHttpOnly(u) == addProtocolHttpOnly(addHost(addPort(u)))

parseURL(u) == addProtocol(addHost(addPort(u)))

----------------------------------------------------------------------------
(* net/url.Parse *)

ParseError == [ok |-> FALSE, Scheme |-> "", Host |-> "", Path |-> "", Opaque |-> "", RawQuery |-> "", Fragment |-> ""]

SchemeMarks == Digits \cup {"+", "-", "."}

\* getScheme: <<ok, scheme, rest>>; scanning from byte i
RECURSIVE getSchemeFrom(_, _)
getSchemeFrom(rawURL, i) ==
  IF i > Len(rawURL) THEN <<TRUE, "", rawURL>>
  ELSE LET c == CharAt(rawURL, i) IN
    IF IsLetter(c) THEN getSchemeFrom(rawURL, i + 1)
    ELSE IF c \in SchemeMarks
      THEN IF i = 1 THEN <<TRUE, "", rawURL>> ELSE getSchemeFrom(rawURL, i + 1)
    ELSE IF c = ":"
      THEN IF i = 1 THEN <<FALSE, "", "">>
           ELSE <<TRUE, SubSeq(rawURL, 1, i - 1), SubSeq(rawURL, i + 1, Len(rawURL))>>
    ELSE <<TRUE, "", rawURL>>

getScheme(rawURL) == getSchemeFrom(rawURL, 1)

\* validOptionalPort: "" or ":" followed by digits only
validOptionalPort(port) ==
  port = "" \/ (Head(port) = ":" /\ Chars(Tail(port)) \subseteq Digits)

\* the bytes shouldEscape(c, encodeHost) lets through unescaped
HostChars ==
  Chars(LowerLetters) \cup Chars(UpperLetters) \cup Digits
    \cup {"!", "$", "&", "'", "(", ")", "*", "+", ",", ";", "=", ":", "[", "]", "<", ">", "\""}
    \cup {"-", "_", ".", "~"}

\* parseHost of a host that is no IPv6 literal: err == nil
validHost(host) ==
  /\ LastIndex(host, ":") # 0 => validOptionalPort(SubSeq(host, LastIndex(host, ":"), Len(host)))
  /\ Chars(host) \subseteq HostChars

ParsedURL(scheme, host, path, opaque, query) ==
  [ok |-> TRUE, Scheme |-> scheme, Host |-> host, Path |-> path, Opaque |-> opaque,
   RawQuery |-> query, Fragment |-> ""]

ishex(c) == Index("0123456789abcdefABCDEF", c) # 0

unhex(c) ==
  IF Index("0123456789", c) # 0 THEN Index("0123456789", c) - 1
  ELSE IF Index("abcdef", c) # 0 THEN Index("abcdef", c) + 9
  ELSE Index("ABCDEF", c) + 9

\* the bytes 0x20 to 0x5F and 0x61 to 0x7E, in order
PrintableLow == " !\"#$%&'()*+,-./0123456789:;<=>?@ABCDEFGHIJKLMNOPQRSTUVWXYZ[\\]^_"

PrintableHigh == "abcdefghijklmnopqrstuvwxyz{|}~"

\* the byte of value n
byte(n) == IF n < 96 THEN CharAt(PrintableLow, n - 31) ELSE CharAt(PrintableHigh, n - 96)

\* the byte an escape "%hl" stands for
unescapedByte(h, l) == byte(16 * unhex(h) + unhex(l))

unescaped(c, rest) == IF rest.ok THEN [ok |-> TRUE, s |-> c \o rest.s] ELSE rest

\* unescape(s, encodePath) and unescape(s, encodeFragment) from byte i on:
\* [ok |-> no EscapeError, s |-> s with every "%XX" replaced by its byte]
RECURSIVE unescapeFrom(_, _)
unescapeFrom(s, i) ==
  IF i > Len(s) THEN [ok |-> TRUE, s |-> ""]
  ELSE IF CharAt(s, i) # "%" THEN unescaped(CharAt(s, i), unescapeFrom(s, i + 1))
  ELSE IF i + 2 > Len(s) \/ ~ishex(CharAt(s, i + 1)) \/ ~ishex(CharAt(s, i + 2))
    THEN [ok |-> FALSE, s |-> ""]
  ELSE unescaped(unescapedByte(CharAt(s, i + 1), CharAt(s, i + 2)), unescapeFrom(s, i + 3))

unescape(s) == unescapeFrom(s, 1)

\* setPath: Path is the unescaped path
setPath(scheme, host, path, query) ==
  IF path.ok THEN ParsedURL(scheme, host, path.s, "", query) ELSE ParseError

\* parseAuthority, then setPath
parseAuthority(scheme, query, authority, path) ==
  IF validHost(authority) THEN setPath(scheme, authority, unescape(path), query) ELSE ParseError

\* the authority runs to the first "/" (at i, 0 when there is none)
splitAuthority(scheme, query, after, i) ==
  IF i = 0 THEN parseAuthority(scheme, query, after, "")
  ELSE parseAuthority(scheme, query, SubSeq(after, 1, i - 1), SubSeq(after, i, Len(after)))

\* parse, from the test for a rootless path on
parseRest(scheme, rest, query) ==
  IF ~HasPrefix(rest, "/") /\ scheme # "" THEN ParsedURL(scheme, "", "", rest, query)
  ELSE IF ~HasPrefix(rest, "/") /\ ":" \in Chars(Cut(rest, "/")[1]) THEN ParseError
  ELSE IF (scheme # "" \/ ~HasPrefix(rest, "///")) /\ HasPrefix(rest, "//")
    THEN splitAuthority(scheme, query, SubSeq(rest, 3, Len(rest)),
                        Index(SubSeq(rest, 3, Len(rest)), "/"))
  ELSE setPath(scheme, "", unescape(rest), query)

\* ForceQuery: a lone "?" at the end
forceQuery(rest) == HasSuffix(rest, "?") /\ Count(rest, "?") = 1

\* the rest without its query
beforeQuery(rest) ==
  IF forceQuery(rest) THEN SubSeq(rest, 1, Len(rest) - 1) ELSE Cut(rest, "?")[1]

\* parse, from the result <<ok, scheme, rest>> of getScheme on
parseScheme(gs) ==
  IF ~gs[1] THEN ParseError
  ELSE parseRest(ToLower(gs[2]), beforeQuery(gs[3]), Cut(gs[3], "?")[2])

\* parse(rawURL, viaRequest = false), after the fragment was cut off
parseNoFragment(rawURL) ==
  IF rawURL = "*" THEN ParsedURL("", "", "*", "", "") ELSE parseScheme(getScheme(rawURL))

\* setFragment: Fragment is the unescaped fragment
setFragment(u, frag) ==
  IF ~u.ok THEN u
  ELSE IF ~frag.ok THEN ParseError
  ELSE [u EXCEPT !.Fragment = frag.s]

\* url.Parse: [ok |-> err == nil] and the fields of the *url.URL
urlParse(rawURL) ==
  setFragment(parseNoFragment(Cut(rawURL, "#")[1]), unescape(Cut(rawURL, "#")[2]))

----------------------------------------------------------------------------
(* buildForwardURL *)

\* lines 215-225, for the result f of url.Parse(forwardURL)
sprintfForwardURL(f, destination) ==
  IF ~f.ok THEN [fatal |-> TRUE, url |-> ""]
  ELSE [fatal |-> FALSE,
        url |-> f.Scheme \o "://" \o f.Host \o TrimSuffix(f.Path, "/") \o destination.Path]

\* [fatal |-> url.Parse(forwardURL) failed and log.Fatalf ended the process,
\*  url |-> otherwise, what fmt.Sprintf("%s://%s%s%s", f.Scheme, f.Host,
\*          strings.TrimSuffix(f.Path, "/"), destination.Path) returns]
buildForwardURL(forwardURL, destination) == sprintfForwardURL(urlParse(forwardURL), destination)

----------------------------------------------------------------------------
(* buildEndpointRoutes *)

EndpointRoute(u, headers, connect, eventTypes) ==
  [URL |-> u, ForwardHeaders |-> headers, Connect |-> connect, EventTypes |-> eventTypes]

\* lines 192-197, 199-204: the append, unless buildForwardURL ended the process
appendRoute(routes, built, headers, connect, eventTypes) ==
  IF built.fatal THEN [fatal |-> TRUE, routes |-> routes]
  ELSE [fatal |-> FALSE,
        routes |-> Append(routes, EndpointRoute(built.url, headers, connect, eventTypes))]

\* the two appends carrying each other's headers
rangeBodyHeadersSwapped(routes, endpoint, u, forwardURL, forwardConnectURL, forwardHeaders, forwardConnectHeaders) ==
  IF ~u.ok THEN [fatal |-> FALSE, routes |-> routes]
  ELSE IF endpoint.Application = ""
    THEN appendRoute(routes, buildForwardURL(forwardURL, u), forwardConnectHeaders, FALSE,
                     endpoint.EnabledEvents)
    ELSE appendRoute(routes, buildForwardURL(forwardConnectURL, u), forwardHeaders, TRUE,
                     endpoint.EnabledEvents)

\* lines 186-206: the body of the loop for one endpoint, u the result of
\* url.Parse(endpoint.URL)
rangeBody(routes, endpoint, u, forwardURL, forwardConnectURL, forwardHeaders, forwardConnectHeaders) ==
  IF ~u.ok THEN [fatal |-> FALSE, routes |-> routes]
  ELSE IF endpoint.Application = ""
    THEN appendRoute(routes, buildForwardURL(forwardURL, u), forwardHeaders, FALSE,
                     endpoint.EnabledEvents)
    ELSE appendRoute(routes, buildForwardURL(forwardConnectURL, u), forwardConnectHeaders, TRUE,
                     endpoint.EnabledEvents)

\* the range loop from endpoints.Data[i] on: acc is [fatal |-> log.Fatalf was
\* reached inside buildForwardURL, routes |-> the routes appended so far (the
\* return value when fatal is FALSE)]
RECURSIVE rangeEndpoints(_, _, _, _, _, _, _)
rangeEndpoints(i, acc, eps, forwardURL, forwardConnectURL, forwardHeaders, forwardConnectHeaders) ==
  IF i > Len(eps) \/ acc.fatal THEN acc
  ELSE rangeEndpoints(i + 1,
                      rangeBody(acc.routes, eps[i], urlParse(eps[i].URL), forwardURL,
                                forwardConnectURL, forwardHeaders, forwardConnectHeaders),
                      eps, forwardURL, forwardConnectURL, forwardHeaders, forwardConnectHeaders)

\* the loop starting one entry late
buildEndpointRoutesSkipFirst(eps, forwardURL, forwardConnectURL, forwardHeaders, forwardConnectHeaders) ==
  rangeEndpoints(2, [fatal |-> FALSE, routes |-> <<>>], eps, forwardURL, forwardConnectURL, forwardHeaders, forwardConnectHeaders)

buildEndpointRoutes(eps, forwardURL, forwardConnectURL, forwardHeaders, forwardConnectHeaders) ==
  rangeEndpoints(1, [fatal |-> FALSE, routes |-> <<>>], eps, forwardURL, forwardConnectURL, forwardHeaders, forwardConnectHeaders)

----------------------------------------------------------------------------
(* the vocabulary of event types *)

validEvents ==
  { "*", "account.application.authorized", "account.application.deauthorized",
    "account.external_account.created", "account.external_account.deleted",
    "account.external_account.updated", "account.updated", "application_fee.created",
    "application_fee.refund.updated", "application_fee.refunded", "balance.available",
    "billing_portal.configuration.created", "billing_portal.configuration.updated",
    "billing_portal.session.created", "capability.updated",
    "cash_balance.funds_available", "charge.captured", "charge.dispute.closed",
    "charge.dispute.created", "charge.dispute.funds_reinstated",
    "charge.dispute.funds_withdrawn", "charge.dispute.updated", "charge.expired",
    "charge.failed", "charge.pending", "charge.refund.updated", "charge.refunded",
    "charge.succeeded", "charge.updated", "checkout.session.async_payment_failed",
    "checkout.session.async_payment_succeeded", "checkout.session.completed",
    "checkout.session.expired", "coupon.created", "coupon.deleted", "coupon.updated",
    "credit_note.created", "credit_note.updated", "credit_note.voided",
    "customer.created", "customer.deleted", "customer.discount.created",
    "customer.discount.deleted", "customer.discount.updated", "customer.source.created",
    "customer.source.deleted", "customer.source.expiring", "customer.source.updated",
    "customer.subscription.created", "customer.subscription.deleted",
    "customer.subscription.pending_update_applied",
    "customer.subscription.pending_update_expired",
    "customer.subscription.trial_will_end", "customer.subscription.updated",
    "customer.tax_id.created", "customer.tax_id.deleted", "customer.tax_id.updated",
    "customer.updated", "file.created", "identity.verification_session.canceled",
    "identity.verification_session.created", "identity.verification_session.processing",
    "identity.verification_session.redacted",
    "identity.verification_session.requires_input",
    "identity.verification_session.verified", "invoice.created", "invoice.deleted",
    "invoice.finalization_failed", "invoice.finalized", "invoice.marked_uncollectible",
    "invoice.paid", "invoice.payment_action_required", "invoice.payment_failed",
    "invoice.payment_succeeded", "invoice.sent", "invoice.upcoming", "invoice.updated",
    "invoice.voided", "invoiceitem.created", "invoiceitem.deleted",
    "invoiceitem.updated", "issuing_authorization.created",
    "issuing_authorization.request", "issuing_authorization.updated",
    "issuing_card.created", "issuing_card.updated", "issuing_cardholder.created",
    "issuing_cardholder.updated", "issuing_dispute.closed", "issuing_dispute.created",
    "issuing_dispute.funds_reinstated", "issuing_dispute.submitted",
    "issuing_dispute.updated", "issuing_transaction.created",
    "issuing_transaction.updated", "mandate.updated", "order.created",
    "order.payment_failed", "order.payment_succeeded", "order.updated",
    "order_return.created", "payment_intent.amount_capturable_updated",
    "payment_intent.canceled", "payment_intent.created",
    "payment_intent.partially_funded", "payment_intent.payment_failed",
    "payment_intent.processing", "payment_intent.requires_action",
    "payment_intent.succeeded", "payment_link.created", "payment_link.updated",
    "payment_method.attached", "payment_method.automatically_updated",
    "payment_method.detached", "payment_method.updated", "payout.canceled",
    "payout.created", "payout.failed", "payout.paid", "payout.updated", "person.created",
    "person.deleted", "person.updated", "plan.created", "plan.deleted", "plan.updated",
    "price.created", "price.deleted", "price.updated", "product.created",
    "product.deleted", "product.updated", "promotion_code.created",
    "promotion_code.updated", "quote.accepted", "quote.canceled", "quote.created",
    "quote.finalized", "radar.early_fraud_warning.created",
    "radar.early_fraud_warning.updated", "recipient.created", "recipient.deleted",
    "recipient.updated", "reporting.report_run.failed", "reporting.report_run.succeeded",
    "reporting.report_type.updated", "review.closed", "review.opened",
    "setup_intent.canceled", "setup_intent.created", "setup_intent.requires_action",
    "setup_intent.setup_failed", "setup_intent.succeeded",
    "sigma.scheduled_query_run.created", "sku.created", "sku.deleted", "sku.updated",
    "source.canceled", "source.chargeable", "source.failed",
    "source.mandate_notification", "source.refund_attributes_required",
    "source.transaction.created", "source.transaction.updated",
    "subscription_schedule.aborted", "subscription_schedule.canceled",
    "subscription_schedule.completed", "subscription_schedule.created",
    "subscription_schedule.expiring", "subscription_schedule.released",
    "subscription_schedule.updated", "tax_rate.created", "tax_rate.updated",
    "terminal.reader.action_failed", "terminal.reader.action_succeeded",
    "test_helpers.test_clock.advancing", "test_helpers.test_clock.created",
    "test_helpers.test_clock.deleted", "test_helpers.test_clock.internal_failure",
    "test_helpers.test_clock.ready", "topup.canceled", "topup.created", "topup.failed",
    "topup.reversed", "topup.succeeded", "transfer.created", "transfer.failed",
    "transfer.paid", "transfer.reversed", "transfer.updated" }

----------------------------------------------------------------------------
(* inputs *)

RECURSIVE SeqsUpTo(_, _)
SeqsUpTo(S, n) ==
  IF n = 0 THEN {<<>>}
  ELSE SeqsUpTo(S, n - 1) \cup {Append(q, x) : q \in {r \in SeqsUpTo(S, n - 1) : Len(r) = n - 1}, x \in S}

RECURSIVE StringsUpTo(_, _)
StringsUpTo(S, n) ==
  IF n = 0 THEN {""}
  ELSE StringsUpTo(S, n - 1) \cup {q \o x : q \in {r \in StringsUpTo(S, n - 1) : Len(r) = n - 1}, x \in S}

\* values of --forward-to
ForwardSpecs == {"", "3000", "/hooks", "localhost:3000/webhooks/", "https://example.test", "a b"}

\* values of --forward-connect-to
ForwardConnectSpecs == {"", "4000", "/connect", "localhost:x"}

\* values of --events: the default, known tokens, known and unknown tokens
EventFilters ==
  { <<"*">>, <<"charge.captured", "charge.updated">>,
    <<"*", "charge.succeeded", "not.a.real.event">> }

\* the webhook endpoints an account may hold
WebhookEndpoints ==
  { [URL |-> "https://example.com/a", Application |-> "", EnabledEvents |-> <<"*">>],
    [URL |-> "not a url", Application |-> "", EnabledEvents |-> <<"charge.captured">>],
    [URL |-> "https://example.com/b", Application |-> "ca_123", EnabledEvents |-> <<"charge.failed", "charge.captured">>],
    [URL |-> "http://exa mple.com/c", Application |-> "ca_123", EnabledEvents |-> <<"charge.failed">>] }

\* the listings requests.WebhookEndpointsList may return
EndpointLists == SeqsUpTo(WebhookEndpoints, MaxEndpoints)

\* the bytes of the strings the Normalizer harness enumerates
Alphabet == {"0", "7", "-", "/", ":", "h", "t", "p", "s"}

\* arguments of parseURL: every short string over Alphabet, the flag values,
\* and integers around the range of int
NormalizeInputs ==
  StringsUpTo(Alphabet, MaxLen) \cup ForwardSpecs \cup ForwardConnectSpecs
    \cup { "http://localhost:3000", "https://localhost:3000/x", "http://", "https://", "HTTP://a",
           "localhost", "+8080", "-1", "007", "65536",
           "9223372036854775807", "9223372036854775808", "-9223372036854775808",
           "-9223372036854775809", "00000000000000000000080", "99999999999999999999" }

\* the bytes of the strings the Composer harness enumerates
ComposeAlphabet == {"3", "a", "/", ":", "?", "#"}

\* values of --forward-to and --forward-connect-to the Composer harness
\* normalises: the flag values above, localhost followed by every short string
\* over ComposeAlphabet, and targets with escapes, queries and fragments
ComposeSpecs ==
  ForwardSpecs \cup ForwardConnectSpecs
    \cup {"localhost" \o s : s \in StringsUpTo(ComposeAlphabet, MaxLen)}
    \cup { "http://localhost:3000", "localhost:3000/hooks%2F", "localhost:3000/hooks%2f?x=1",
           "localhost:3000/a%20b", "localhost:3000/hooks%2", "localhost:3000/hooks//?x=1",
           "https://example.test/hooks/?x=1#top", "https://example.test/hooks#a/b?c",
           "localhost:3000/hooks#%zz" }

\* the bases buildEndpointRoutes receives: parseURL of a flag value
ComposeBases == {parseURL(s) : s \in ComposeSpecs}

\* the destinations buildEndpointRoutes hands on: endpoint URLs url.Parse accepts
ComposeDestinations ==
  {u \in {urlParse(e.URL) : e \in WebhookEndpoints} \cup {urlParse("https://example.com/v1/hook")} :
     u.ok}

----------------------------------------------------------------------------
(* runListenCmd *)

NoConfig == [inited |-> FALSE]

NoEndpoints == [fetched |-> FALSE, Data |-> <<>>]

Init ==
  /\ pc = "start"
  /\ \E f \in ForwardSpecs, c \in ForwardConnectSpecs, e \in EventFilters,
        a \in BOOLEAN, s \in BOOLEAN :
       lc = [forwardURL |-> f, forwardConnectURL |-> c,
             forwardHeaders |-> <<"X-Direct: 1">>, forwardConnectHeaders |-> <<"X-Connect: 1">>,
             events |-> e, useConfiguredWebhooks |-> a, onlyPrintSecret |-> s]
  /\ endpoints = NoEndpoints
  /\ endpointRoutes = <<>>
  /\ warnings = <<>>
  /\ stdout = <<>>
  /\ err = ""
  /\ relay = [config |-> NoConfig, runs |-> 0]
  /\ url = ""
  /\ normalized = <<>>
  /\ forwardTo = ""
  /\ endpointURL = ParseError
  /\ composed = <<>>

Return(e) ==
  /\ err' = e
  /\ pc' = "done"

\* lines 98-106: Config.Profile.GetDeviceName or GetAPIKey returns an error
GetProfileFails ==
  /\ pc = "start"
  /\ Return("profile")
  /\ UNCHANGED <<lc, endpoints, endpointRoutes, warnings, stdout, relay, url, normalized, composeVars>>

\* lines 98-109: device name and key are read
GetProfile ==
  /\ pc = "start"
  /\ pc' = IF lc.onlyPrintSecret THEN "secret" ELSE "events"
  /\ UNCHANGED <<lc, endpoints, endpointRoutes, warnings, stdout, err, relay, url, normalized, composeVars>>

\* lines 109-116: --print-secret
PrintSecret ==
  /\ pc = "secret"
  /\ \E ok \in BOOLEAN :
       IF ok THEN stdout' = Append(stdout, "secret") /\ Return("")
       ELSE stdout' = stdout /\ Return("session secret")
  /\ UNCHANGED <<lc, endpoints, endpointRoutes, warnings, relay, url, normalized, composeVars>>

\* the loop of lines 119-123 returning an error at the first unknown event
ValidateEventsStrict ==
  /\ pc = "events"
  /\ warnings' = warnings \o SelectSeq(lc.events, LAMBDA event : event \notin validEvents)
  /\ IF \E i \in 1..Len(lc.events) : lc.events[i] \notin validEvents
     THEN Return("invalid event")
     ELSE pc' = "routes" /\ err' = err
  /\ UNCHANGED <<lc, endpoints, endpointRoutes, stdout, relay, url, normalized, composeVars>>

\* lines 119-123
ValidateEvents ==
  /\ pc = "events"
  /\ warnings' = warnings \o SelectSeq(lc.events, LAMBDA event : event \notin validEvents)
  /\ pc' = "routes"
  /\ UNCHANGED <<lc, endpoints, endpointRoutes, stdout, err, relay, url, normalized, composeVars>>

\* lines 126-129
RejectRelativeForward ==
  /\ pc = "routes"
  /\ lc.useConfiguredWebhooks /\ Len(lc.forwardURL) > 0
  /\ HasPrefix(lc.forwardURL, "/")
  /\ Return("--forward-to cannot be a relative path when loading webhook endpoints from the API")
  /\ UNCHANGED <<lc, endpoints, endpointRoutes, warnings, stdout, relay, url, normalized, composeVars>>

\* lines 131-133
RejectRelativeConnect ==
  /\ pc = "routes"
  /\ lc.useConfiguredWebhooks /\ Len(lc.forwardURL) > 0
  /\ ~HasPrefix(lc.forwardURL, "/")
  /\ HasPrefix(lc.forwardConnectURL, "/")
  /\ Return("--forward-connect-to cannot be a relative path when loading webhook endpoints from the API")
  /\ UNCHANGED <<lc, endpoints, endpointRoutes, warnings, stdout, relay, url, normalized, composeVars>>

\* line 135: the listing comes back from the API
GetEndpointsFromAPI ==
  /\ pc = "routes"
  /\ lc.useConfiguredWebhooks /\ Len(lc.forwardURL) > 0
  /\ ~HasPrefix(lc.forwardURL, "/")
  /\ ~HasPrefix(lc.forwardConnectURL, "/")
  /\ \E list \in EndpointLists : endpoints' = [fetched |-> TRUE, Data |-> list]
  /\ pc' = "fetched"
  /\ UNCHANGED <<lc, endpointRoutes, warnings, stdout, err, relay, url, normalized, composeVars>>

\* lines 136-138
RejectNoEndpoints ==
  /\ pc = "fetched"
  /\ Len(endpoints.Data) = 0
  /\ Return("You have not defined any webhook endpoints on your account")
  /\ UNCHANGED <<lc, endpoints, endpointRoutes, warnings, stdout, relay, url, normalized, composeVars>>

\* the call of line 140
Resolve ==
  buildEndpointRoutes(endpoints.Data, parseURL(lc.forwardURL), parseURL(lc.forwardConnectURL),
                      lc.forwardHeaders, lc.forwardConnectHeaders)

\* how line 140 ends, for the outcome r of buildEndpointRoutes
Resolved(r) ==
  IF r.fatal
  THEN pc' = "exited" /\ endpointRoutes' = endpointRoutes
  ELSE pc' = "init" /\ endpointRoutes' = r.routes

\* line 216 logging without exiting: the routes built so far are used
BuildRoutesLogOnly ==
  /\ pc = "fetched"
  /\ Len(endpoints.Data) # 0
  /\ pc' = "init"
  /\ endpointRoutes' = Resolve.routes
  /\ UNCHANGED <<lc, endpoints, warnings, stdout, err, relay, url, normalized, composeVars>>

\* line 140: buildEndpointRoutes returns the routes, or log.Fatalf (line 216)
\* ends the process inside it
BuildRoutes ==
  /\ pc = "fetched"
  /\ Len(endpoints.Data) # 0
  /\ Resolved(Resolve)
  /\ UNCHANGED <<lc, endpoints, warnings, stdout, err, relay, url, normalized, composeVars>>

\* the else-branch of line 141 left out: the command goes on without a target
RequireForwardToLeftOut ==
  /\ pc = "routes"
  /\ lc.useConfiguredWebhooks /\ Len(lc.forwardURL) = 0
  /\ pc' = "init"
  /\ UNCHANGED <<lc, endpoints, endpointRoutes, warnings, stdout, err, relay, url, normalized, composeVars>>

\* lines 141-143
RequireForwardTo ==
  /\ pc = "routes"
  /\ lc.useConfiguredWebhooks /\ Len(lc.forwardURL) = 0
  /\ Return("--load-from-webhooks-api requires a location to forward to with --forward-to")
  /\ UNCHANGED <<lc, endpoints, endpointRoutes, warnings, stdout, relay, url, normalized, composeVars>>

\* lines 126, 141: neither branch is taken
SkipConfiguredWebhooks ==
  /\ pc = "routes"
  /\ ~lc.useConfiguredWebhooks
  /\ pc' = "init"
  /\ UNCHANGED <<lc, endpoints, endpointRoutes, warnings, stdout, err, relay, url, normalized, composeVars>>

\* the EndpointRoutes field of line 152 left out of the proxy.Config
ProxyInitWithoutRoutes ==
  /\ pc = "init"
  /\ relay' = [relay EXCEPT !.config =
                 [inited |-> TRUE,
                  ForwardURL |-> lc.forwardURL,
                  ForwardHeaders |-> lc.forwardHeaders,
                  ForwardConnectURL |-> lc.forwardConnectURL,
                  ForwardConnectHeaders |-> lc.forwardConnectHeaders,
                  EndpointRoutes |-> <<>>,
                  Events |-> lc.events]]
  /\ pc' = "run"
  /\ UNCHANGED <<lc, endpoints, endpointRoutes, warnings, stdout, err, url, normalized, composeVars>>

\* lines 145-161: proxy.Init
ProxyInit ==
  /\ pc = "init"
  /\ relay' = [relay EXCEPT !.config =
                 [inited |-> TRUE,
                  ForwardURL |-> lc.forwardURL,
                  ForwardHeaders |-> lc.forwardHeaders,
                  ForwardConnectURL |-> lc.forwardConnectURL,
                  ForwardConnectHeaders |-> lc.forwardConnectHeaders,
                  EndpointRoutes |-> endpointRoutes,
                  Events |-> lc.events]]
  /\ pc' = "run"
  /\ UNCHANGED <<lc, endpoints, endpointRoutes, warnings, stdout, err, url, normalized, composeVars>>

\* lines 163-168: p.Run, and what it returns
ProxyRun ==
  /\ pc = "run"
  /\ relay' = [relay EXCEPT !.runs = @ + 1]
  /\ \E e \in {"", "proxy run"} : Return(e)
  /\ UNCHANGED <<lc, endpoints, endpointRoutes, warnings, stdout, url, normalized, composeVars>>

Next ==
  \/ GetProfileFails
  \/ GetProfile
  \/ PrintSecret
  \/ ValidateEvents
  \/ RejectRelativeForward
  \/ RejectRelativeConnect
  \/ GetEndpointsFromAPI
  \/ RejectNoEndpoints
  \/ BuildRoutes
  \/ RequireForwardTo
  \/ SkipConfiguredWebhooks
  \/ ProxyInit
  \/ ProxyRun

Spec == Init /\ [][Next]_vars

----------------------------------------------------------------------------
(* the Normalizer on its own: parseURL applied to an argument, then to its result *)

InitNormalize ==
  /\ url \in NormalizeInputs
  /\ normalized = <<>>
  /\ forwardTo = ""
  /\ endpointURL = ParseError
  /\ composed = <<>>
  /\ pc = "idle"
  /\ lc = [forwardURL |-> "", forwardConnectURL |-> "", forwardHeaders |-> <<>>,
           forwardConnectHeaders |-> <<>>, events |-> <<"*">>,
           useConfiguredWebhooks |-> FALSE, onlyPrintSecret |-> FALSE]
  /\ endpoints = NoEndpoints
  /\ endpointRoutes = <<>>
  /\ warnings = <<>>
  /\ stdout = <<>>
  /\ err = ""
  /\ relay = [config |-> NoConfig, runs |-> 0]

Normalize ==
  /\ normalized = <<>>
  /\ normalized' = <<parseURL(url)>>
  /\ UNCHANGED <<cmdVars, url, composeVars>>

NormalizeAgain ==
  /\ Len(normalized) = 1
  /\ normalized' = Append(normalized, parseURL(normalized[1]))
  /\ UNCHANGED <<cmdVars, url, composeVars>>

NextNormalize == Normalize \/ NormalizeAgain

SpecNormalize == InitNormalize /\ [][NextNormalize]_vars

----------------------------------------------------------------------------
(* the Composer on its own: buildForwardURL applied to a base and a          *)
(* destination, then to the base followed by "/" and the same destination  *)

InitCompose ==
  /\ forwardTo \in ComposeBases
  /\ endpointURL \in ComposeDestinations
  /\ composed = <<>>
  /\ url = ""
  /\ normalized = <<>>
  /\ pc = "idle"
  /\ lc = [forwardURL |-> "", forwardConnectURL |-> "", forwardHeaders |-> <<>>,
           forwardConnectHeaders |-> <<>>, events |-> <<"*">>,
           useConfiguredWebhooks |-> FALSE, onlyPrintSecret |-> FALSE]
  /\ endpoints = NoEndpoints
  /\ endpointRoutes = <<>>
  /\ warnings = <<>>
  /\ stdout = <<>>
  /\ err = ""
  /\ relay = [config |-> NoConfig, runs |-> 0]

Compose ==
  /\ composed = <<>>
  /\ composed' = <<buildForwardURL(forwardTo, endpointURL)>>
  /\ UNCHANGED <<cmdVars, url, normalized, forwardTo, endpointURL>>

ComposeWithSlash ==
  /\ Len(composed) = 1
  /\ composed' = Append(composed, buildForwardURL(forwardTo \o "/", endpointURL))
  /\ UNCHANGED <<cmdVars, url, normalized, forwardTo, endpointURL>>

NextCompose == Compose \/ ComposeWithSlash

SpecCompose == InitCompose /\ [][NextCompose]_vars

----------------------------------------------------------------------------
(* properties of route resolution *)

\* buildEndpointRoutes has returned in this run, and endpointRoutes holds its result
RoutesBuilt == endpoints.fetched /\ pc \in {"init", "run", "done"}

\* the entries of the listing whose URL url.Parse accepts
Parsable == {i \in 1..Len(endpoints.Data) : urlParse(endpoints.Data[i].URL).ok}

\* the k-th member of a set of listing positions, in listing order
Kth(P, k) == CHOOSE i \in P : Cardinality({j \in P : j <= i}) = k

\* the forwarding base the code uses for entry i
BaseOf(i) ==
  IF endpoints.Data[i].Application = "" THEN parseURL(lc.forwardURL)
  ELSE parseURL(lc.forwardConnectURL)

\* C1: when buildEndpointRoutes returns, its result holds exactly one route
\* per listing entry whose URL parses, in listing order (route k is made from
\* the k-th parsable entry); entries whose URL does not parse leave no route
\* and do not disturb the others; for the empty listing it returns the empty
\* route list without failing, whatever the targets are.
C1_OneRoutePerParsableEndpoint ==
  /\ RoutesBuilt =>
       LET P == Parsable IN
       /\ Len(endpointRoutes) = Cardinality(P)
       /\ \A k \in 1..Len(endpointRoutes) :
            LET endpoint == endpoints.Data[Kth(P, k)] IN
              /\ endpointRoutes[k].URL = buildForwardURL(BaseOf(Kth(P, k)), urlParse(endpoint.URL)).url
              /\ endpointRoutes[k].Connect = (endpoint.Application # "")
              /\ endpointRoutes[k].EventTypes = endpoint.EnabledEvents
  /\ buildEndpointRoutes(<<>>, parseURL(lc.forwardURL), parseURL(lc.forwardConnectURL),
                         lc.forwardHeaders, lc.forwardConnectHeaders)
       = [fatal |-> FALSE, routes |-> <<>>]

\* an unparsable entry between two parsable ones was skipped
C1_Witness ==
  /\ RoutesBuilt
  /\ Len(endpoints.Data) = 3
  /\ Parsable = {1, 3}
  /\ Len(endpointRoutes) = 2
  /\ endpoints.Data[1].URL # endpoints.Data[3].URL

EndpointA == [URL |-> "https://example.com/a", Application |-> "", EnabledEvents |-> <<"*">>]

EndpointNotAURL == [URL |-> "not a url", Application |-> "", EnabledEvents |-> <<"charge.captured">>]

EndpointB == [URL |-> "https://example.com/b", Application |-> "ca_123", EnabledEvents |-> <<"charge.failed", "charge.captured">>]

\* C2: for the listing a (direct), "not a url" (direct), b (connect) with
\* direct target "3000" and connect target "4000", the result is exactly the
\* two routes http://localhost:3000/a (direct) and http://localhost:4000/b
\* (connect).
C2_ExampleYieldsTwoRoutes ==
  ( /\ RoutesBuilt
    /\ endpoints.Data = <<EndpointA, EndpointNotAURL, EndpointB>>
    /\ lc.forwardURL = "3000"
    /\ lc.forwardConnectURL = "4000" )
  => /\ Len(endpointRoutes) = 2
     /\ endpointRoutes[1].URL = "http://localhost:3000/a" /\ ~endpointRoutes[1].Connect
     /\ endpointRoutes[2].URL = "http://localhost:4000/b" /\ endpointRoutes[2].Connect

\* C3: with no --forward-connect-to, every connect route handed to the relay
\* has the URL composed from the direct target.
C3_ConnectFallsBackToDirect ==
  (relay.config.inited /\ lc.useConfiguredWebhooks /\ lc.forwardConnectURL = "")
  => LET P == Parsable IN
     \A k \in 1..Len(relay.config.EndpointRoutes) :
       relay.config.EndpointRoutes[k].Connect =>
         relay.config.EndpointRoutes[k].URL
           = buildForwardURL(parseURL(lc.forwardURL), urlParse(endpoints.Data[Kth(P, k)].URL)).url

\* an absolute URL: scheme http or https, a host, a path beginning with "/"
AbsoluteURL(u) ==
  LET p == urlParse(u)
  IN  p.ok /\ p.Scheme \in {"http", "https"} /\ p.Host # "" /\ HasPrefix(p.Path, "/")

\* C4: every route handed to the relay has an absolute delivery URL.
C4_DeliveryURLsAbsolute ==
  relay.config.inited =>
    \A k \in 1..Len(relay.config.EndpointRoutes) : AbsoluteURL(relay.config.EndpointRoutes[k].URL)

----------------------------------------------------------------------------
(* properties of the command *)

\* the run is over: runListenCmd returned, or the process exited in log.Fatalf
Over == pc \in {"done", "exited"}

RelayUntouched == ~relay.config.inited /\ relay.runs = 0

\* endpoint-API mode with a configuration the command must refuse
RefusedConfiguration ==
  /\ lc.useConfiguredWebhooks
  /\ \/ lc.forwardURL = ""
     \/ HasPrefix(lc.forwardURL, "/")
     \/ HasPrefix(lc.forwardConnectURL, "/")
     \/ (endpoints.fetched /\ Len(endpoints.Data) = 0)

\* C5 as stated: in endpoint-API mode with a missing target, a relative
\* direct or connect base, or an empty listing, the run ends with an error
\* returned and the relay neither initialised nor started.
C5_RefusedConfigurationReturnsError ==
  RefusedConfiguration =>
    /\ RelayUntouched
    /\ Over => (pc = "done" /\ err # "")

\* C5 amended: the same, for runs without --print-secret; with --print-secret
\* the command returns before it validates the targets (nil when the secret
\* was printed), and the relay is left alone in either case.
C5_RefusedConfigurationReturnsErrorUnlessPrintSecret ==
  RefusedConfiguration =>
    /\ RelayUntouched
    /\ (Over /\ ~lc.onlyPrintSecret) => (pc = "done" /\ err # "")
    /\ (Over /\ lc.onlyPrintSecret) => (pc = "done" /\ (err = "" <=> stdout # <<>>))

\* each of the refused configurations ended a run without --print-secret
C5_Witness ==
  /\ RefusedConfiguration
  /\ ~lc.onlyPrintSecret
  /\ pc = "done"
  /\ err \notin {"", "profile"}
  /\ endpoints.fetched

\* a parsable listing entry whose forwarding base url.Parse rejects
UnparsableBaseUsed ==
  \E i \in Parsable : ~urlParse(BaseOf(i)).ok

\* C6 as stated: every run that ends on a fatal error, the unparsable
\* forwarding base included, ends with runListenCmd returning an error, the
\* relay never started.
C6_FatalErrorsAreReturned ==
  /\ Over => pc = "done"
  /\ (pc = "done" /\ err \notin {"", "proxy run"}) => RelayUntouched
  /\ (Over /\ endpoints.fetched /\ UnparsableBaseUsed) => (err # "" /\ RelayUntouched)

\* C6 amended: a fatal error is returned by runListenCmd, the relay untouched,
\* except the unparsable forwarding base: there the process exits inside
\* buildForwardURL, runListenCmd returns nothing, and the relay is untouched
\* as well; no run gets past resolution with such a base in use.
C6_FatalErrorsAreReturnedOrExit ==
  /\ err # "" => pc = "done"
  /\ err \notin {"", "proxy run"} => RelayUntouched
  /\ pc = "exited" => (err = "" /\ RelayUntouched /\ endpoints.fetched /\ UnparsableBaseUsed)
  /\ RoutesBuilt => ~UnparsableBaseUsed

\* the process exited on an unparsable --forward-connect-to after a direct
\* route had been built
C6_Witness ==
  /\ pc = "exited"
  /\ urlParse(parseURL(lc.forwardURL)).ok
  /\ ~urlParse(parseURL(lc.forwardConnectURL)).ok
  /\ Len(endpoints.Data) >= 2

\* C7: the relay is run at most once and only after proxy.Init; proxy.Init
\* happens only once validation and resolution are through: in endpoint-API
\* mode the targets were accepted, the listing is non-empty and the table
\* handed over is everything buildEndpointRoutes returned; and from proxy.Init
\* on the command changes neither the configuration nor the route table.
C7_RelayStartedOnceWithCompleteTable ==
  /\ [](/\ relay.runs <= 1
        /\ relay.runs = 1 => (relay.config.inited /\ pc = "done")
        /\ relay.config.inited =>
             /\ pc \in {"run", "done"}
             /\ ~RefusedConfiguration
             /\ relay.config.EndpointRoutes = endpointRoutes
             /\ IF lc.useConfiguredWebhooks
                THEN /\ endpoints.fetched
                     /\ Len(relay.config.EndpointRoutes) = Cardinality(Parsable)
                     /\ relay.config.EndpointRoutes = Resolve.routes
                ELSE relay.config.EndpointRoutes = <<>>)
  /\ [][relay.config.inited =>
          /\ relay'.config = relay.config
          /\ endpointRoutes' = endpointRoutes
          /\ lc' = lc]_vars

\* the relay ran with a table of two routes or more
C7_Witness ==
  /\ relay.runs = 1
  /\ Len(relay.config.EndpointRoutes) >= 2

\* the tokens of a filter that are not in the vocabulary, in order
Unknown(filter) == SelectSeq(filter, LAMBDA token : token \notin validEvents)

\* the error runListenCmd returns for the flags and the listing alone, the
\* event filter left aside ("" is none)
ConfigurationError ==
  IF ~lc.useConfiguredWebhooks THEN ""
  ELSE IF lc.forwardURL = ""
    THEN "--load-from-webhooks-api requires a location to forward to with --forward-to"
  ELSE IF HasPrefix(lc.forwardURL, "/")
    THEN "--forward-to cannot be a relative path when loading webhook endpoints from the API"
  ELSE IF HasPrefix(lc.forwardConnectURL, "/")
    THEN "--forward-connect-to cannot be a relative path when loading webhook endpoints from the API"
  ELSE IF endpoints.fetched /\ Len(endpoints.Data) = 0
    THEN "You have not defined any webhook endpoints on your account"
  ELSE ""

\* C8: validating the event filter never ends the run: whatever tokens it
\* holds, the step prints one warning per unknown token ("*" is known),
\* changes nothing else and goes on to the routes; the error of a finished
\* run is that of the profile, the session secret, the flags and listing, or
\* the relay, never of the filter; and the relay is given the filter as asked.
C8_UnknownEventsOnlyWarn ==
  /\ [](/\ "*" \in validEvents
        /\ pc \in {"routes", "fetched", "init", "run", "exited"} =>
             (warnings = Unknown(lc.events) /\ err = "")
        /\ (pc = "done" /\ err \notin {"profile", "session secret", "proxy run"}) =>
             err = (IF lc.onlyPrintSecret THEN "" ELSE ConfigurationError)
        /\ relay.config.inited => relay.config.Events = lc.events)
  /\ [][pc = "events" =>
          /\ pc' = "routes"
          /\ <<lc, endpoints, endpointRoutes, stdout, err, relay>>'
               = <<lc, endpoints, endpointRoutes, stdout, err, relay>>]_vars

\* the relay ran and returned nil after a warning about an unknown token
C8_Witness ==
  /\ relay.runs = 1
  /\ err = ""
  /\ warnings = <<"not.a.real.event">>
  /\ relay.config.Events = <<"*", "charge.succeeded", "not.a.real.event">>

----------------------------------------------------------------------------
(* properties of the Normalizer *)

\* a decimal integer: an optional sign and one digit or more
IsIntegerString(s) ==
  LET digits == IF s # "" /\ Head(s) \in {"+", "-"} THEN Tail(s) ELSE s
  IN  digits # "" /\ Chars(digits) \subseteq Digits

\* C9 as stated: parseURL of an integer string n is "http://localhost:" + n.
C9_IntegerBecomesLocalhostPort ==
  (Len(normalized) >= 1 /\ IsIntegerString(url))
  => normalized[1] = "http://localhost:" \o url

\* C9 amended: parseURL of an integer string n whose value is in the range of
\* int (what strconv.Atoi accepts) is "http://localhost:" + n.
C9_IntegerInRangeBecomesLocalhostPort ==
  (Len(normalized) >= 1 /\ IsIntegerString(url)
     /\ FitsInt(IF Head(url) \in {"+", "-"} THEN Tail(url) ELSE url, Head(url) = "-"))
  => normalized[1] = "http://localhost:" \o url

\* the largest int was normalised
C9_Witness ==
  /\ url = "9223372036854775807"
  /\ normalized = <<"http://localhost:9223372036854775807">>

\* C10: parseURL applied to its own result returns it unchanged, and an
\* argument that starts with http:// or https:// is returned unchanged.
C10_NormalizeIdempotent ==
  /\ Len(normalized) = 2 => normalized[2] = normalized[1]
  /\ (Len(normalized) >= 1 /\ (HasPrefix(url, "http://") \/ HasPrefix(url, "https://")))
       => normalized[1] = url

\* parseURL changed its argument and then left its own result alone
C10_Witness ==
  /\ Len(normalized) = 2
  /\ normalized[1] # url
  /\ normalized[2] = normalized[1]
  /\ HasPrefix(url, "/")

----------------------------------------------------------------------------
\* result is scheme://host of the base f, the path of f with or without its
\* trailing "/", and p, and no "/" stands before p
JoinedWithoutDoubledSlash(f, p, result) ==
  \E q \in {f.Path, TrimSuffix(f.Path, "/")} :
     /\ ~HasSuffix(q, "/")
     /\ result = f.Scheme \o "://" \o f.Host \o q \o p

\* b up to its query string and fragment
WithoutQueryAndFragment(b) == Cut(Cut(b, "#")[1], "?")[1]

\* both compositions were made for a base url.Parse accepts that does not end
\* in "/" and a destination path beginning with "/"
ComposedBothWays ==
  /\ Len(composed) = 2
  /\ urlParse(forwardTo).ok
  /\ ~HasSuffix(forwardTo, "/")
  /\ HasPrefix(endpointURL.Path, "/")

\* C11: for every parseable base b that does not end in "/" and every
\* destination path p beginning with "/", buildForwardURL gives the same URL
\* for b and for b followed by "/"; that URL is scheme://host of b followed
\* by the path of b and p with no doubled "/" where they join; and it is the
\* URL composed for b without its query string and fragment.
C11_ComposeIgnoresTrailingSlash ==
  ComposedBothWays =>
    /\ ~composed[1].fatal
    /\ composed[2] = composed[1]
    /\ JoinedWithoutDoubledSlash(urlParse(forwardTo), endpointURL.Path, composed[1].url)
    /\ composed[1] = buildForwardURL(WithoutQueryAndFragment(forwardTo), endpointURL)

----------------------------------------------------------------------------
\* route has the flag, the headers, the base and the event types the code
\* gives a route made from endpoint
RouteOfEndpoint(route, endpoint) ==
  /\ route.Connect <=> endpoint.Application # ""
  /\ route.Connect =>
       /\ route.ForwardHeaders = lc.forwardConnectHeaders
       /\ route.URL = buildForwardURL(parseURL(lc.forwardConnectURL), urlParse(endpoint.URL)).url
  /\ ~route.Connect =>
       /\ route.ForwardHeaders = lc.forwardHeaders
       /\ route.URL = buildForwardURL(parseURL(lc.forwardURL), urlParse(endpoint.URL)).url
  /\ route.EventTypes = endpoint.EnabledEvents

\* C12: every route buildEndpointRoutes returned is flagged connect exactly
\* when the endpoint it was made from has a non-empty Application; a connect
\* route carries the connect headers and a URL composed from the connect
\* base, a direct route the direct headers and a URL composed from the direct
\* base; and its event types are the endpoint's enabled events.
C12_RouteCarriesMatchingTarget ==
  RoutesBuilt =>
    \A k \in 1..Len(endpointRoutes) :
       RouteOfEndpoint(endpointRoutes[k], endpoints.Data[Kth(Parsable, k)])

\* a direct and a connect route were built, for two different targets
C12_Witness ==
  /\ RoutesBuilt
  /\ lc.forwardURL # ""
  /\ lc.forwardConnectURL # ""
  /\ parseURL(lc.forwardURL) # parseURL(lc.forwardConnectURL)
  /\ \E j, k \in 1..Len(endpointRoutes) :
       /\ endpointRoutes[j].Connect
       /\ ~endpointRoutes[k].Connect
       /\ endpointRoutes[j].ForwardHeaders # endpointRoutes[k].ForwardHeaders

====
